---- MODULE Spec2Model ----
(***************************************************************************)
(* The sharded Adam optimizer of torch_mnm/optimizer/adam.py.              *)
(*                                                                         *)
(* Tensors are records [shape, rows]: shape is the torch shape (one or two *)
(* dimensions), rows the sequence of rows along dimension 0, each row the  *)
(* sequence of its elements (one element for a 1-D tensor).  Elements are  *)
(* symbolic terms, tuples whose first component is a tag:                  *)
(*   <<"zero">>                         the value 0 (torch.zeros, F.pad)   *)
(*   <<"w", i, j>>                      an initial parameter value         *)
(*   <<"g", i, j>>                      a gradient value                   *)
(*   <<"exp_avg", beta1, m, g>>         beta1*m + (1-beta1)*g              *)
(*   <<"exp_avg_sq", beta2, v, g>>      beta2*v + (1-beta2)*g*g            *)
(*   <<"decay", weight_decay, x>>       x after weight decay               *)
(*   <<"adam", x, m, v, lr, eps, b1, b2, t>>  the updated parameter value  *)
(* Hyperparameters are rationals <<numerator, denominator>>.               *)
(***************************************************************************)
EXTENDS Integers, Sequences, FiniteSets, TLC

\* ---------------------------------------------------------------- bounds
MaxOut == 4
MaxWorld == 3
MaxCalls == 2

VARIABLES
    dctx,             \* dist.get_context(): [zero_opt_level, rank, size]
    args,             \* the arguments of the constructor call
    pc,               \* "new" before Adam(...), "ready" after it returned, "failed" after it raised
    raised,           \* exception of the last call: "none", "ValueError", ...
    param_groups,     \* self.param_groups
    _zero_opt_level,  \* self._zero_opt_level (None before it is set)
    _rank,            \* self._rank
    _world_size,      \* self._world_size
    _lm,              \* self._lm is not None
    param,            \* p.data of every parameter
    grad,             \* p.grad of every parameter: "None", "dense" or "sparse"
    state,            \* self.state: parameter -> [step, exp_avg, exp_avg_sq]
    locals,           \* step()'s locals for the parameters the last call processed
        step_calls,       \* number of step() calls so far
    grad_calls,       \* per parameter: successful step() calls with a non-null gradient
    failed_calls      \* number of step() calls that raised

vars == <<dctx, args, pc, raised, param_groups, _zero_opt_level, _rank, _world_size, _lm,
          param, grad, state, locals, step_calls, grad_calls, failed_calls>>

None == -1

\* ---------------------------------------------------------------- tensors
Zero == <<"zero">>

RowLen(shape) == IF Len(shape) = 1 THEN 1 ELSE shape[2]

ZeroRow(n) == [j \in 1..n |-> Zero]

zeros(shape) ==
    [shape |-> shape, rows |-> [i \in 1..shape[1] |-> ZeroRow(RowLen(shape))]]

\* torch.nn.functional.pad(t, pad_width), constant 0: pad_width lists
\* (left, right) pairs from the last dimension backwards.
pad(t, pad_width) ==
    LET n    == Len(t.shape)
        rowL == pad_width[2 * n - 1]
        rowR == pad_width[2 * n]
        colL == IF n = 2 THEN pad_width[1] ELSE 0
        colR == IF n = 2 THEN pad_width[2] ELSE 0
        w    == RowLen(t.shape) + colL + colR
        wide == [i \in 1..Len(t.rows) |-> ZeroRow(colL) \o t.rows[i] \o ZeroRow(colR)]
        rows == [i \in 1..rowL |-> ZeroRow(w)] \o wide \o [i \in 1..rowR |-> ZeroRow(w)]
    IN  [shape |-> IF n = 1 THEN <<Len(rows)>> ELSE <<Len(rows), w>>, rows |-> rows]

Min(a, b) == IF a < b THEN a ELSE b

\* t[lo:hi] along dimension 0 (Python slicing clamps to the length)
Slice(t, lo, hi) ==
    LET rows == SubSeq(t.rows, Min(lo, Len(t.rows)) + 1, Min(hi, Len(t.rows)))
    IN  [shape |-> [t.shape EXCEPT ![1] = Len(rows)], rows |-> rows]

\* math.ceil(a / b)
Ceil(a, b) == (a + b - 1) \div b

\* ---------------------------------------------------------------- partitioning
\* the comparison with > for >=
need_partition_gt(shape) == _zero_opt_level > 0 /\ shape[1] > _world_size

\* lines 144-145, on data.shape
_need_partition(shape) == _zero_opt_level > 0 /\ shape[1] >= _world_size

\* the shard size rounded down
create_partitioned_buffer_floor(shape) ==
    zeros([shape EXCEPT ![1] = shape[1] \div _world_size])

\* lines 147-150, on data.shape
_create_partitioned_buffer(shape) ==
    zeros([shape EXCEPT ![1] = Ceil(shape[1], _world_size)])

\* the slice taken without padding
partition_nopad(global_data, local_data) ==
    IF _need_partition(global_data.shape)
    THEN LET part_size == local_data.shape[1]
         IN  Slice(global_data, _rank * part_size, (_rank + 1) * part_size)
    ELSE global_data

\* lines 152-167
_partition(global_data, local_data) ==
    IF _need_partition(global_data.shape)
    THEN LET part_size == local_data.shape[1]
             part_data ==
                 IF _world_size * part_size > global_data.shape[1]
                 THEN LET n == 2 * Len(global_data.shape)
                          pad_width == [k \in 1..n |->
                              IF k = n THEN _world_size * part_size - global_data.shape[1]
                                       ELSE 0]
                      IN  pad(global_data, pad_width)
                 ELSE global_data
         IN  Slice(part_data, _rank * part_size, (_rank + 1) * part_size)
    ELSE global_data

\* ---------------------------------------------------------------- F.adam
SameShape(a, b) == a.shape = b.shape

\* one element of the Adam recurrence
adam_elem(x, g, m, v, t, group) ==
    LET decayed == IF group.weight_decay[1] # 0
                   THEN <<"decay", group.weight_decay, x>> ELSE x
        m2 == <<"exp_avg", group.betas[1], m, g>>
        v2 == <<"exp_avg_sq", group.betas[2], v, g>>
    IN  [exp_avg |-> m2, exp_avg_sq |-> v2,
         param |-> <<"adam", decayed, m2, v2, group.lr, group.eps,
                     group.betas[1], group.betas[2], t>>]

\* F.adam([param], [grad], [exp_avg], [exp_avg_sq], [], [state_step], ...):
\* the moments are updated in place, the updated parameter is returned
adam(p, g, exp_avg, exp_avg_sq, state_step, group) ==
    LET e(i, j) == adam_elem(p.rows[i][j], g.rows[i][j], exp_avg.rows[i][j],
                             exp_avg_sq.rows[i][j], state_step, group)
        map(f)  == [shape |-> p.shape,
                    rows  |-> [i \in 1..Len(p.rows) |->
                                  [j \in 1..Len(p.rows[i]) |-> e(i, j)[f]]]]
    IN  [param |-> map("param"), exp_avg |-> map("exp_avg"),
         exp_avg_sq |-> map("exp_avg_sq")]

\* ---------------------------------------------------------------- scatter_
\* self.scatter_(dim=0, index, src): self[index[i][j]][j] = src[i][j].  Where
\* several i write one cell the index is not unique and torch leaves open which
\* write lasts; win[j] names the row of src whose write lasts in column j.
scatter_(self, index, src, win) ==
    [self EXCEPT !.rows =
        [r \in 1..Len(self.rows) |->
            [j \in 1..Len(self.rows[r]) |->
                LET W == {i \in 1..Len(src.rows) : index[i][j] = r - 1}
                IN  IF W = {} THEN self.rows[r][j]
                    ELSE IF win[j] \in W THEN src.rows[win[j]][j]
                    ELSE src.rows[CHOOSE i \in W : TRUE][j]]]]

\* ---------------------------------------------------------------- step
Params == DOMAIN param

RECURSIVE Flatten(_)
Flatten(groups) ==
    IF groups = <<>> THEN <<>> ELSE Head(groups).params \o Flatten(Tail(groups))

\* the parameters in the order step() visits them
Order == Flatten(param_groups)

InSeq(x, s) == \E k \in 1..Len(s) : s[k] = x

GroupOf(p) == param_groups[CHOOSE k \in 1..Len(param_groups) : InSeq(p, param_groups[k].params)]

\* p.grad of a dense gradient: the shape of p
GradOf(p) ==
    [shape |-> param[p].shape,
     rows  |-> [i \in 1..param[p].shape[1] |->
                   [j \in 1..RowLen(param[p].shape) |-> <<"g", i, j>>]]]

Put(f, k, v) == [x \in DOMAIN f \cup {k} |-> IF x = k THEN v ELSE f[x]]

\* lines 95-105: lazy state initialization
InitState(a, p) ==
    IF p \notin DOMAIN a.state
    THEN LET shape == a.param[p].shape
             buf   == IF _need_partition(shape)
                      THEN _create_partitioned_buffer(shape)
                      ELSE zeros(shape)
         IN  [step |-> 0, exp_avg |-> buf, exp_avg_sq |-> buf]
    ELSE a.state[p]

\* the counter incremented twice
step_twice(n) == n + 2

\* line 112: state['step'] += 1
NextStep(n) == n + 1

\* lines 93-141 for one parameter with a dense gradient; the set of outcomes
UpdateParam(a, p) ==
    LET global == a.param[p]
        st     == InitState(a, p)
        param_with_grad_local == _partition(global, st.exp_avg)
        grad_local == _partition(GradOf(p), st.exp_avg)
        state_step == NextStep(st.step)
        fits   == /\ SameShape(param_with_grad_local, grad_local)
                  /\ SameShape(param_with_grad_local, st.exp_avg)
                  /\ SameShape(param_with_grad_local, st.exp_avg_sq)
        out    == adam(param_with_grad_local, grad_local, st.exp_avg, st.exp_avg_sq,
                       state_step, GroupOf(p))
        need   == [create    |-> _need_partition(global.shape),
                   data      |-> _need_partition(global.shape),
                   grad      |-> _need_partition(GradOf(p).shape),
                   writeback |-> _need_partition(global.shape)]
        loc(updated, win, marked) ==
            [need |-> need, created |-> p \notin DOMAIN a.state, global_before |-> global,
             local_param |-> param_with_grad_local, local_grad |-> grad_local,
             updated |-> updated, win |-> win, marked |-> marked]
    IN  IF ~fits
        THEN \* the elementwise update of mismatched shapes raises
             {[a EXCEPT !.raised = "RuntimeError",
                        !.state  = Put(a.state, p, [st EXCEPT !.step = state_step]),
                        !.locals = Put(a.locals, p,
                                       loc(param_with_grad_local, <<>>, FALSE))]}
        ELSE LET st2 == [step |-> state_step, exp_avg |-> out.exp_avg,
                         exp_avg_sq |-> out.exp_avg_sq]
             IN  IF _need_partition(global.shape)
                 THEN LET index == [i \in 1..Len(out.param.rows) |->
                                       [j \in 1..Len(out.param.rows[i]) |-> 0]]
                      IN  {[a EXCEPT !.param  = Put(a.param, p,
                                                    scatter_(global, index, out.param, win)),
                                     !.state  = Put(a.state, p, st2),
                                     !.locals = Put(a.locals, p, loc(out.param, win, _lm))]
                           : win \in [1..RowLen(global.shape) -> 1..Len(out.param.rows)]}
                 ELSE {[a EXCEPT !.param  = Put(a.param, p, out.param),
                                 !.state  = Put(a.state, p, st2),
                                 !.locals = Put(a.locals, p, loc(out.param, <<>>, _lm))]}

\* the sparse check placed after the state initialization
process_param_init_first(a, p) ==
    IF a.grad[p] = "None" THEN {a}
    ELSE IF a.grad[p] = "sparse"
         THEN {[a EXCEPT !.raised = "RuntimeError",
                         !.state  = Put(a.state, p, InitState(a, p))]}
         ELSE UpdateParam(a, p)

\* lines 87-141: the body of the loop for parameter p
ProcessParam(a, p) ==
    IF a.grad[p] = "None" THEN {a}
    ELSE IF a.grad[p] = "sparse" THEN {[a EXCEPT !.raised = "RuntimeError"]}
    ELSE UpdateParam(a, p)

\* lines 84-141: the loop from the i-th parameter on; it ends at the first raise
RECURSIVE StepFrom(_, _)
StepFrom(i, a) ==
    IF i > Len(Order) \/ a.raised # "none" THEN {a}
    ELSE UNION {StepFrom(i + 1, b) : b \in ProcessParam(a, Order[i])}

NoLocals == [p \in {} |-> 0]

\* step() with the gradients g the backward pass left in p.grad.  The closure
\* (lines 79-82) only computes the loss that line 142 returns: it is left None.
step(g) ==
    /\ pc = "ready"
    /\ step_calls < MaxCalls
    /\ grad' = g
    /\ \E a \in StepFrom(1, [param |-> param, state |-> state, grad |-> g,
                             locals |-> NoLocals, raised |-> "none"]) :
          /\ param' = a.param
          /\ state' = a.state
          /\ locals' = a.locals
          /\ raised' = a.raised
          /\ grad_calls' = IF a.raised = "none"
                           THEN [p \in Params |->
                                    grad_calls[p] + IF g[p] = "None" THEN 0 ELSE 1]
                           ELSE grad_calls
          /\ failed_calls' = failed_calls + IF a.raised = "none" THEN 0 ELSE 1
    /\ step_calls' = step_calls + 1
    /\ UNCHANGED <<dctx, args, pc, param_groups, _zero_opt_level, _rank, _world_size, _lm>>

GradKinds == {"None", "dense", "sparse"}

Step == \E g \in [Params -> GradKinds] : step(g)

\* ---------------------------------------------------------------- the model
\* torch.nn.Linear(in_features, out_features): weight [out, in] and bias [out]
Weights(shape) ==
    [shape |-> shape,
     rows  |-> [i \in 1..shape[1] |-> [j \in 1..RowLen(shape) |-> <<"w", i, j>>]]]

Linear(in_features, out_features) ==
    <<Weights(<<out_features, in_features>>), Weights(<<out_features>>)>>

\* zero_opt_level: ZeRO off and on
ZeroLevels == {0, 1}

\* in_features of the model
InFeatures == {1}

Contexts ==
    {[zero_opt_level |-> z, rank |-> r, size |-> n] :
        z \in ZeroLevels, r \in 0..(MaxWorld - 1), n \in 1..MaxWorld}

\* ---------------------------------------------------------------- construction
Hyper == {"lr", "betas", "eps", "weight_decay", "amsgrad"}

\* param_group.setdefault(name, default) for every default (Optimizer.add_param_group)
SetDefaults(g, defaults) ==
    [params       |-> g.params,
     lr           |-> IF "lr" \in DOMAIN g THEN g.lr ELSE defaults.lr,
     betas        |-> IF "betas" \in DOMAIN g THEN g.betas ELSE defaults.betas,
     eps          |-> IF "eps" \in DOMAIN g THEN g.eps ELSE defaults.eps,
     weight_decay |-> IF "weight_decay" \in DOMAIN g THEN g.weight_decay
                      ELSE defaults.weight_decay,
     amsgrad      |-> IF "amsgrad" \in DOMAIN g THEN g.amsgrad ELSE defaults.amsgrad]

\* torch.optim.Optimizer.__init__(params, defaults), line 58: a list of
\* parameters becomes one group, a list of dicts one group per dict; every
\* group takes the defaults for the keys it does not set.  params is
\* [dicts |-> whether the items are dicts, items |-> the non-empty list].
Optimizer__init__(params, defaults) ==
    LET groups == IF params.dicts THEN params.items ELSE <<[params |-> params.items]>>
    IN  [k \in 1..Len(groups) |-> SetDefaults(groups[k], defaults)]

Unbuilt ==
    [raised |-> "none", param_groups |-> <<>>, _zero_opt_level |-> None,
     _rank |-> None, _world_size |-> None, _lm |-> FALSE]

Raise(self, exc) == [self EXCEPT !.raised = exc]

\* the constructor with the validation after the base constructor and the
\* read of the distributed context
init_validate_late(params, lr, betas, eps, weight_decay, amsgrad, mark_step) ==
    LET defaults == [lr |-> lr, betas |-> betas, eps |-> eps,
                     weight_decay |-> weight_decay, amsgrad |-> amsgrad]
        self == [raised |-> "none",
                 param_groups |-> Optimizer__init__(params, defaults),
                 _zero_opt_level |-> dctx.zero_opt_level, _rank |-> dctx.rank,
                 _world_size |-> dctx.size, _lm |-> mark_step]
    IN  IF ~(0 <= lr[1]) THEN Raise(self, "ValueError")
        ELSE IF ~(0 <= eps[1]) THEN Raise(self, "ValueError")
        ELSE IF ~(0 <= betas[1][1] /\ betas[1][1] < betas[1][2]) THEN Raise(self, "ValueError")
        ELSE IF ~(0 <= betas[2][1] /\ betas[2][1] < betas[2][2]) THEN Raise(self, "ValueError")
        ELSE IF ~(0 <= weight_decay[1]) THEN Raise(self, "ValueError")
        ELSE IF amsgrad # FALSE THEN Raise(self, "NotImplementedError")
        ELSE self

\* Adam.__init__; a rational <<n, d>> has d > 0, so 0.0 <= x is 0 <= n and
\* x < 1.0 is n < d
__init__(params, lr, betas, eps, weight_decay, amsgrad, mark_step) ==
    IF ~(0 <= lr[1]) THEN Raise(Unbuilt, "ValueError")
    ELSE IF ~(0 <= eps[1]) THEN Raise(Unbuilt, "ValueError")
    ELSE IF ~(0 <= betas[1][1] /\ betas[1][1] < betas[1][2]) THEN Raise(Unbuilt, "ValueError")
    ELSE IF ~(0 <= betas[2][1] /\ betas[2][1] < betas[2][2]) THEN Raise(Unbuilt, "ValueError")
    ELSE IF ~(0 <= weight_decay[1]) THEN Raise(Unbuilt, "ValueError")
    ELSE IF amsgrad # FALSE THEN Raise(Unbuilt, "NotImplementedError")
    ELSE LET defaults == [lr |-> lr, betas |-> betas, eps |-> eps,
                          weight_decay |-> weight_decay, amsgrad |-> amsgrad]
         IN  [raised |-> "none",
              param_groups |-> Optimizer__init__(params, defaults),
              _zero_opt_level |-> dctx.zero_opt_level,
              _rank |-> dctx.rank,
              _world_size |-> dctx.size,
              _lm |-> mark_step]

New(a) == __init__(a.params, a.lr, a.betas, a.eps, a.weight_decay, a.amsgrad, a.mark_step)

\* the signature's defaults, line 41
DefaultArgs ==
    [params |-> [dicts |-> FALSE, items |-> <<1, 2>>],
     lr |-> <<1, 1000>>, betas |-> <<<<9, 10>>, <<999, 1000>>>>,
     eps |-> <<1, 100000000>>, weight_decay |-> <<0, 1>>, amsgrad |-> FALSE,
     mark_step |-> FALSE]

LrVals == {<<-1, 1000>>, <<0, 1>>, <<1, 1000>>}
BetaVals == {<<-1, 10>>, <<0, 1>>, <<9, 10>>, <<999, 1000>>, <<1, 1>>}
EpsVals == {<<-1, 100000000>>, <<0, 1>>, <<1, 100000000>>}
DecayVals == {<<-1, 100>>, <<0, 1>>, <<1, 100>>}

\* params: the parameters, or dicts that set some hyperparameters themselves
ParamArgs ==
    {[dicts |-> FALSE, items |-> <<1, 2>>],
     [dicts |-> TRUE, items |-> <<[params |-> <<1, 2>>]>>],
     [dicts |-> TRUE, items |-> <<[params |-> <<1, 2>>, lr |-> <<-1, 1000>>]>>],
     [dicts |-> TRUE, items |-> <<[params |-> <<2>>, amsgrad |-> TRUE], [params |-> <<1>>]>>],
     [dicts |-> TRUE, items |-> <<[params |-> <<1>>],
                                  [params |-> <<2>>, betas |-> <<<<9, 10>>, <<1, 1>>>>,
                                   eps |-> <<-1, 100000000>>,
                                   weight_decay |-> <<-1, 100>>]>>]}

CtorArgs ==
    {[params |-> ps, lr |-> lr, betas |-> <<b1, b2>>, eps |-> eps, weight_decay |-> wd,
      amsgrad |-> ams, mark_step |-> ms] :
        ps \in ParamArgs, lr \in LrVals, b1 \in BetaVals, b2 \in BetaVals,
        eps \in EpsVals, wd \in DecayVals, ams \in BOOLEAN, ms \in BOOLEAN}

Model(i, o) ==
    /\ param = Linear(i, o)
    /\ grad = [p \in 1..2 |-> "None"]
    /\ state = [p \in {} |-> 0]
    /\ locals = NoLocals
    /\ step_calls = 0
    /\ grad_calls = [p \in 1..2 |-> 0]
    /\ failed_calls = 0

Built(self) ==
    /\ raised = self.raised
    /\ param_groups = self.param_groups
    /\ _zero_opt_level = self._zero_opt_level
    /\ _rank = self._rank
    /\ _world_size = self._world_size
    /\ _lm = self._lm

\* Adam(params, lr, betas, eps, weight_decay, amsgrad, mark_step)
Construct ==
    /\ pc = "new"
    /\ \E a \in CtorArgs :
          /\ args' = a
          /\ pc' = IF New(a).raised = "none" THEN "ready" ELSE "failed"
          /\ raised' = New(a).raised
          /\ param_groups' = New(a).param_groups
          /\ _zero_opt_level' = New(a)._zero_opt_level
          /\ _rank' = New(a)._rank
          /\ _world_size' = New(a)._world_size
          /\ _lm' = New(a)._lm
    /\ UNCHANGED <<dctx, param, grad, state, locals, step_calls, grad_calls, failed_calls>>

InitCtor ==
    /\ dctx \in {c \in Contexts : c.rank < c.size}
    /\ args = DefaultArgs
    /\ pc = "new"
    /\ Built(Unbuilt)
    /\ Model(1, 1)

NextCtor == Construct

SpecCtor == InitCtor /\ [][NextCtor]_vars

\* the optimizers step() is followed from: the defaults, and weight decay with
\* mark_step
StepArgs ==
    {DefaultArgs,
     [DefaultArgs EXCEPT !.weight_decay = <<1, 100>>, !.mark_step = TRUE]}

\* the state after torch.nn.Linear(i, o) and Adam(model.parameters(), ...)
Init ==
    /\ dctx \in {c \in Contexts : c.rank < c.size}
    /\ args \in StepArgs
    /\ pc = "ready"
    /\ Built(New(args))
    /\ \E i \in InFeatures, o \in 1..MaxOut : Model(i, o)

Next == Step

Spec == Init /\ [][Next]_vars

\* ---------------------------------------------------------------- properties
\* shard eligibility and shard size, written from the distributed configuration
Eligible(shape) == _zero_opt_level > 0 /\ ~(shape[1] < _world_size)

PartSize(shape) == CHOOSE n \in 0..shape[1] :
                       n * _world_size >= shape[1] /\ (n - 1) * _world_size < shape[1]

ShardShape(shape) == IF Eligible(shape) THEN [shape EXCEPT ![1] = PartSize(shape)] ELSE shape

\* the rows a rank's shard of t holds: its slice of t, zero rows past the end of t
ShardRows(t) ==
    [i \in 1..PartSize(t.shape) |->
        IF _rank * PartSize(t.shape) + i <= t.shape[1]
        THEN t.rows[_rank * PartSize(t.shape) + i]
        ELSE [j \in 1..RowLen(t.shape) |-> Zero]]

Padded(shape) == Eligible(shape) /\ _world_size * PartSize(shape) > shape[1]

\* C1: _partition returns, for a shard-eligible tensor, exactly part_size rows,
\* row i being global row rank*part_size + i where that row exists and an
\* all-zero row otherwise, and returns a tensor that is not shard-eligible
\* unchanged; for the parameter and for the gradient of every parameter a
\* step() call processed.
C1_PartitionRows ==
    \A p \in DOMAIN locals :
        LET l == locals[p]
        IN  IF Eligible(l.global_before.shape)
            THEN /\ l.local_param.rows = ShardRows(l.global_before)
                 /\ l.local_grad.rows = ShardRows(GradOf(p))
            ELSE /\ l.local_param = l.global_before
                 /\ l.local_grad = GradOf(p)

\* the last rank's shard of a padded parameter: real rows followed by zero rows
C1_Witness ==
    \E p \in DOMAIN locals :
        /\ Padded(param[p].shape)
        /\ _rank = _world_size - 1
        /\ _rank > 0
        /\ locals[p].local_grad.rows[1] = GradOf(p).rows[_rank * PartSize(param[p].shape) + 1]
        /\ locals[p].local_grad.rows[PartSize(param[p].shape)] = ZeroRow(RowLen(param[p].shape))

\* C2: after step() processed a shard-eligible parameter, global row
\* rank*part_size + i equals row i of the updated local shard for every i with
\* rank*part_size + i inside the parameter; a parameter that is not
\* shard-eligible is overwritten whole with the updated value.
C2_WritebackAtOffset ==
    \A p \in DOMAIN locals :
        LET l  == locals[p]
            ps == PartSize(param[p].shape)
        IN  IF Eligible(param[p].shape)
            THEN \A i \in 1..ps :
                    _rank * ps + i <= param[p].shape[1]
                        => param[p].rows[_rank * ps + i] = l.updated.rows[i]
            ELSE param[p] = l.updated

\* a value computed by the Adam update from a zero padding element
PadDerived(v) ==
    /\ v[1] = "adam"
    /\ \/ v[2] = Zero
       \/ v[2][1] = "decay" /\ v[2][3] = Zero

\* C3: after any step() on a shard-eligible parameter whose leading dimension
\* world_size does not divide, no row of the global parameter holds a value
\* computed from a zero padding row, and the parameter keeps its leading
\* dimension.
C3_NoPaddingWrittenBack ==
    \A p \in DOMAIN locals :
        Padded(locals[p].global_before.shape) =>
            /\ param[p].shape = locals[p].global_before.shape
            /\ Len(param[p].rows) = param[p].shape[1]
            /\ \A r \in 1..Len(param[p].rows) :
                   \A j \in 1..Len(param[p].rows[r]) : ~PadDerived(param[p].rows[r][j])

\* C4: every parameter with optimizer state has exp_avg.shape == exp_avg_sq.shape,
\* the full shape when it is not shard-eligible and the shape with leading
\* dimension ceil(shape[0] / world_size) when it is, and the local parameter and
\* gradient passed to the Adam update have that shape.
C4_StateShapes ==
    \A p \in DOMAIN state :
        LET want == ShardShape(param[p].shape)
        IN  /\ state[p].exp_avg.shape = state[p].exp_avg_sq.shape
            /\ state[p].exp_avg.shape = want
            /\ Len(state[p].exp_avg.rows) = want[1]
            /\ Len(state[p].exp_avg_sq.rows) = want[1]
            /\ p \in DOMAIN locals =>
                  /\ locals[p].local_param.shape = want
                  /\ locals[p].local_grad.shape = want
                  /\ Len(locals[p].local_param.rows) = want[1]
                  /\ Len(locals[p].local_grad.rows) = want[1]

\* a sharded, padded parameter after its second update
C4_Witness ==
    \E p \in DOMAIN state :
        /\ p \in DOMAIN locals
        /\ Padded(param[p].shape)
        /\ state[p].step = 2
        /\ state[p].exp_avg.shape[1] < param[p].shape[1]

\* C5: _need_partition is true exactly when zero_opt_level > 0 and
\* shape[0] >= world_size, never with zero_opt_level == 0, and gives one
\* answer at state creation, at the partition of the data, at the partition of
\* the gradient and at writeback.
C5_NeedPartition ==
    \A p \in DOMAIN locals :
        LET l == locals[p]
            e == (dctx.zero_opt_level > 0 /\ param[p].shape[1] >= dctx.size)
        IN  /\ l.need.data = e
            /\ l.need.grad = e
            /\ l.need.writeback = e
            /\ l.created => l.need.create = e
            /\ dctx.zero_opt_level = 0 => ~l.need.data
            /\ (state[p].exp_avg.shape # param[p].shape) => e

\* a parameter with exactly world_size rows, sharded at its first update
C5_Witness ==
    \E p \in DOMAIN locals :
        /\ locals[p].created
        /\ dctx.zero_opt_level > 0
        /\ dctx.size > 1
        /\ param[p].shape[1] = dctx.size
        /\ locals[p].need.create

BadNumber(a) ==
    \/ a.lr[1] < 0
    \/ a.eps[1] < 0
    \/ a.betas[1][1] < 0 \/ a.betas[1][1] >= a.betas[1][2]
    \/ a.betas[2][1] < 0 \/ a.betas[2][1] >= a.betas[2][2]
    \/ a.weight_decay[1] < 0

\* C6: constructing with lr < 0, eps < 0, a beta outside [0,1), weight_decay < 0
\* or amsgrad = true fails, with ValueError for the numbers and
\* NotImplementedError for amsgrad, before a parameter group is registered and
\* before the distributed context is read; the default hyperparameters succeed.
C6_ConstructorValidation ==
    pc # "new" =>
        /\ BadNumber(args) => pc = "failed" /\ raised = "ValueError"
        /\ (~BadNumber(args) /\ args.amsgrad) =>
               pc = "failed" /\ raised = "NotImplementedError"
        /\ (~BadNumber(args) /\ ~args.amsgrad) => pc = "ready" /\ raised = "none"
        /\ pc = "failed" =>
               /\ param_groups = <<>>
               /\ _zero_opt_level = None
               /\ _rank = None
               /\ _world_size = None
        /\ pc = "ready" =>
               /\ _zero_opt_level = dctx.zero_opt_level
               /\ _rank = dctx.rank
               /\ _world_size = dctx.size
        /\ (\A h \in Hyper : args[h] = DefaultArgs[h]) => pc = "ready"

\* a constructor call that failed on beta2 = 1 alone
C6_Witness ==
    /\ pc = "failed"
    /\ raised = "ValueError"
    /\ args.betas = <<<<9, 10>>, <<1, 1>>>>
    /\ args.lr = <<0, 1>>
    /\ args.eps = <<0, 1>>
    /\ args.weight_decay = <<0, 1>>
    /\ ~args.amsgrad

\* C7: every parameter group of a constructed optimizer has lr >= 0, eps >= 0,
\* 0 <= beta1 < 1, 0 <= beta2 < 1, weight_decay >= 0 and amsgrad = false,
\* groups given as dicts that set their own hyperparameters included.
C7_GroupsValidated ==
    pc = "ready" =>
        \A k \in 1..Len(param_groups) :
            /\ ~BadNumber(param_groups[k])
            /\ ~param_groups[k].amsgrad

HadState(p) == p \in DOMAIN state

Untouched(p) ==
    /\ param'[p] = param[p]
    /\ (p \in DOMAIN state') = HadState(p)
    /\ HadState(p) => state'[p] = state[p]

\* C8: a step() call that meets a sparse gradient at parameter p raises and
\* leaves the state and the value of p and of every later parameter as they
\* were (p gets no state record), while every parameter with a gradient before
\* p keeps its update, its step counter one higher.
C8_SparseGradient ==
    [][step_calls' = step_calls + 1 =>
        \A k \in 1..Len(Order) :
            (/\ grad'[Order[k]] = "sparse"
             /\ \A i \in 1..(k - 1) : grad'[Order[i]] # "sparse")
            => /\ raised' = "RuntimeError"
               /\ failed_calls' = failed_calls + 1
               /\ \A i \in k..Len(Order) : Untouched(Order[i])
               /\ \A i \in 1..(k - 1) :
                     LET q == Order[i]
                     IN  IF grad'[q] = "None" THEN Untouched(q)
                         ELSE /\ q \in DOMAIN state'
                              /\ q \in DOMAIN locals'
                              /\ state'[q].step =
                                     (IF HadState(q) THEN state[q].step ELSE 0) + 1
                              /\ param'[q] # param[q]
                              /\ HadState(q) => state'[q].exp_avg # state[q].exp_avg
    ]_vars

\* the first parameter was updated and the second, never updated, was sparse
C8_Witness ==
    /\ raised = "RuntimeError"
    /\ grad = <<"dense", "sparse">>
    /\ 1 \in DOMAIN state
    /\ state[1].step = 2
    /\ 2 \notin DOMAIN state
    /\ 1 \in DOMAIN locals

FromZero(t) == \A i \in 1..Len(t.rows) : \A j \in 1..Len(t.rows[i]) : t.rows[i][j][3] = Zero

\* C9: a parameter has no state record until the first step() call in which
\* its gradient is non-null; the record then starts from step = 0 and zero
\* moment buffers; after successful calls only, state.step is the number of
\* calls in which the parameter had a gradient; a call in which its gradient is
\* null changes neither its state nor its value.
C9_LazyStateAndCount ==
    [][step_calls' = step_calls + 1 =>
        /\ \A p \in Params :
              /\ grad'[p] = "None" => Untouched(p)
              /\ (~HadState(p) /\ p \in DOMAIN state') =>
                    /\ grad'[p] # "None"
                    /\ state'[p].step = 1
                    /\ FromZero(state'[p].exp_avg)
                    /\ FromZero(state'[p].exp_avg_sq)
        /\ failed_calls' = 0 =>
              \A p \in Params :
                  IF grad_calls'[p] = 0 THEN p \notin DOMAIN state'
                  ELSE p \in DOMAIN state' /\ state'[p].step = grad_calls'[p]
    ]_vars

\* two successful calls: both gradients, then the second parameter's alone
C9_Witness ==
    /\ failed_calls = 0
    /\ step_calls = 2
    /\ grad = <<"None", "dense">>
    /\ 1 \in DOMAIN state /\ state[1].step = 1
    /\ 2 \in DOMAIN state /\ state[2].step = 2

====
